---- MODULE Spec2Model ----
(* swap-worktree: the swap protocol of src/main.rs (run and its helpers)   *)
(* as a state machine over a small git repository with two worktrees.      *)
(* Text is a sequence of tokens: "refs/heads/main" is <<"refs/heads/",     *)
(* "main">>, the empty string is <<>>, a path or a branch name is a        *)
(* one-token text.  An Option is a sequence of length 0 (None) or 1 (Some).*)
EXTENDS Integers, Sequences, FiniteSets, TLC

(***************************************************************************)
(* Bounds                                                                  *)
(***************************************************************************)
\* number of stash entries that may exist before the run starts
MaxPre == 1
\* number of lines of a worktree listing given to the parsers
MaxLines == 5

(***************************************************************************)
(* Text helpers (str::trim, str::strip_prefix, str::split_once)            *)
(***************************************************************************)
IsWs(t) == t \in {" ", "\n"}

RECURSIVE TrimStart(_)
TrimStart(s) ==
  IF s # <<>> /\ IsWs(Head(s)) THEN TrimStart(Tail(s)) ELSE s

RECURSIVE TrimEnd(_)
TrimEnd(s) ==
  IF s # <<>> /\ IsWs(s[Len(s)]) THEN TrimEnd(SubSeq(s, 1, Len(s) - 1)) ELSE s

Trim(s) == TrimEnd(TrimStart(s))

\* Option<&str>: the rest of s after the leading token p, or None
StripPrefix(s, p) ==
  IF s # <<>> /\ Head(s) = p THEN <<Tail(s)>> ELSE <<>>

\* strip_prefix(p).unwrap_or(s)
StripPrefixOr(s, p) ==
  IF StripPrefix(s, p) # <<>> THEN StripPrefix(s, p)[1] ELSE s

RECURSIVE IndexOf(_, _, _)
IndexOf(s, t, i) ==
  IF i > Len(s) THEN 0 ELSE IF s[i] = t THEN i ELSE IndexOf(s, t, i + 1)

\* Option<(&str, &str)>: the text before and after the first token t
SplitOnce(s, t) ==
  LET i == IndexOf(s, t, 1) IN
    IF i = 0 THEN <<>>
    ELSE << <<SubSeq(s, 1, i - 1), SubSeq(s, i + 1, Len(s))>> >>

(***************************************************************************)
(* The file system and the repository the tool is run against              *)
(***************************************************************************)
WtA     == <<"/wtA">>      \* the main worktree
WtB     == <<"/wtB">>      \* a linked worktree
LinkA   == <<"/linkA">>    \* a symbolic link to /wtA
Plain   == <<"/plain">>    \* a directory outside any repository
File    == <<"/file">>     \* a regular file
GitDir  == <<"/wtA/.git">> \* the repository's metadata directory
Missing == <<"/missing">>  \* a path that does not exist

Worktrees == {WtA, WtB}
Paths     == {WtA, WtB, LinkA, Plain, File, GitDir, Missing}

Main == <<"main">>
Feat == <<"feat">>
Gone == <<"gone">>         \* a branch no worktree has checked out
Branches == {Main, Feat, Gone}
DETACHED == <<>>           \* a head that is on no branch

\* Path::is_absolute
IsAbsolute(p) == p # <<>> /\ Head(p) \in {Head(q) : q \in Paths}

\* Path::join
Join(base, p) == base \o <<"/">> \o p

\* Path::exists, Path::is_dir on the disk (a set of paths)
Exists(disk, p) == p \in disk
IsDir(disk, p)  == p \in disk /\ p # File

\* mutant: symbolic links are not resolved
CanonicalizeMut(disk, p) ==
  IF ~Exists(disk, p) THEN <<>> ELSE <<p>>

\* Path::canonicalize: Some(resolved path), or None when p does not exist
Canonicalize(disk, p) ==
  IF ~Exists(disk, p) THEN <<>>
  ELSE IF p = LinkA THEN <<WtA>> ELSE <<p>>

\* the worktree a `git -C dir` command operates on
WorktreeAt(dir) == IF dir = LinkA THEN WtA ELSE dir

(***************************************************************************)
(* Branch/worktree locator                                                 *)
(***************************************************************************)
\* normalize_path
normalize_path(base, path) ==
  IF IsAbsolute(path) THEN path ELSE Join(base, path)

ErrNotFound == "Could not find worktree for branch"
ErrNoDir    == "Source directory does not exist"

\* mutant: any record with a branch matches, whatever the target
MatchRecordMut(disk, dir, branch, worktree_path, branch_name) ==
  IF branch_name # <<>> /\ worktree_path # <<>>
  THEN LET path_buf == normalize_path(dir, worktree_path[1]) IN
         IF ~Exists(disk, path_buf)
         THEN << [ok |-> FALSE, path |-> path_buf, err |-> ErrNoDir] >>
         ELSE << [ok |-> TRUE, path |-> path_buf, err |-> ""] >>
  ELSE <<>>

\* mutant: a matching record whose directory is gone is passed over
MatchRecordSkipMut(disk, dir, branch, worktree_path, branch_name) ==
  IF branch_name = <<branch>> /\ worktree_path # <<>>
  THEN LET path_buf == normalize_path(dir, worktree_path[1]) IN
         IF ~Exists(disk, path_buf) THEN <<>>
         ELSE << [ok |-> TRUE, path |-> path_buf, err |-> ""] >>
  ELSE <<>>

\* the check made on an accumulated record, at a blank line and after the
\* last line: Some(result) when the record decides the search, else None
MatchRecord(disk, dir, branch, worktree_path, branch_name) ==
  IF branch_name = <<branch>> /\ worktree_path # <<>>
  THEN LET path_buf == normalize_path(dir, worktree_path[1]) IN
         IF ~Exists(disk, path_buf)
         THEN << [ok |-> FALSE, path |-> path_buf, err |-> ErrNoDir] >>
         ELSE << [ok |-> TRUE, path |-> path_buf, err |-> ""] >>
  ELSE <<>>

\* mutant: a record is only looked at when a blank line ends it
AfterLastLineMut(disk, dir, branch, worktree_path, branch_name) ==
  [ok |-> FALSE, path |-> <<>>, err |-> ErrNotFound]

\* the code after the loop: the record accumulated when the input ends
AfterLastLine(disk, dir, branch, worktree_path, branch_name) ==
  LET m == MatchRecord(disk, dir, branch, worktree_path, branch_name) IN
    IF m # <<>> THEN m[1]
    ELSE [ok |-> FALSE, path |-> <<>>, err |-> ErrNotFound]

RECURSIVE FindLoop(_, _, _, _, _, _, _)
FindLoop(disk, dir, branch, lines, i, worktree_path, branch_name) ==
  IF i > Len(lines)
  THEN AfterLastLine(disk, dir, branch, worktree_path, branch_name)
  ELSE LET line == lines[i] IN
    IF Trim(line) = <<>>
    THEN LET m == MatchRecord(disk, dir, branch, worktree_path, branch_name) IN
           IF m # <<>> THEN m[1]
           ELSE FindLoop(disk, dir, branch, lines, i + 1, <<>>, <<>>)
    ELSE IF StripPrefix(line, "worktree ") # <<>>
    THEN FindLoop(disk, dir, branch, lines, i + 1,
                  << Trim(StripPrefix(line, "worktree ")[1]) >>, branch_name)
    ELSE IF StripPrefix(line, "branch ") # <<>>
    THEN FindLoop(disk, dir, branch, lines, i + 1, worktree_path,
                  << StripPrefixOr(Trim(StripPrefix(line, "branch ")[1]),
                                   "refs/heads/") >>)
    ELSE FindLoop(disk, dir, branch, lines, i + 1, worktree_path, branch_name)

\* find_worktree_for_branch, on the lines of a successful listing
find_worktree_for_branch(disk, dir, branch, lines) ==
  FindLoop(disk, dir, branch, lines, 1, <<>>, <<>>)

\* one block of `git worktree list --porcelain` for a worktree shown under
\* `path` whose head is `h`
PorcelainBlock(path, h) ==
  << <<"worktree ">> \o path, <<"HEAD ", "sha">> >>
  \o (IF h = DETACHED THEN << <<"detached">> >>
      ELSE << <<"branch ", "refs/heads/">> \o h >>)

\* the listing git prints: the main worktree first, blocks separated by a
\* blank line; `trail` tells whether a blank line follows the last block
WorktreeListPorcelain(head, shownA, trail) ==
  PorcelainBlock(shownA, head[WtA]) \o << <<>> >>
  \o PorcelainBlock(WtB, head[WtB])
  \o (IF trail THEN << <<>> >> ELSE <<>>)

\* the byte order of the tokens branch names are made of
TokenRank(t) ==
  CASE t = "\n" -> 0
    [] t = " " -> 1
    [] t = "feat" -> 2
    [] t = "main" -> 3
    [] t = "refs/heads/" -> 4
    [] OTHER -> 5

\* String's Ord: a < b in lexicographic order
RECURSIVE LexLess(_, _)
LexLess(a, b) ==
  IF b = <<>> THEN FALSE
  ELSE IF a = <<>> THEN TRUE
  ELSE IF Head(a) = Head(b) THEN LexLess(Tail(a), Tail(b))
  ELSE TokenRank(Head(a)) < TokenRank(Head(b))

\* mutant: the names are collected in a list
BTreeInsertMut(set, x) == Append(set, x)

\* BTreeSet::insert, the set kept as the sequence its iterator yields
RECURSIVE BTreeInsert(_, _)
BTreeInsert(set, x) ==
  IF set = <<>> THEN <<x>>
  ELSE IF Head(set) = x THEN set
  ELSE IF LexLess(x, Head(set)) THEN <<x>> \o set
  ELSE <<Head(set)>> \o BTreeInsert(Tail(set), x)

RECURSIVE ParseLoop(_, _, _)
ParseLoop(lines, i, branches) ==
  IF i > Len(lines) THEN branches
  ELSE LET rest == StripPrefix(lines[i], "branch ") IN
    IF rest = <<>> THEN ParseLoop(lines, i + 1, branches)
    ELSE LET trimmed == Trim(rest[1]) IN
      IF trimmed = <<>> THEN ParseLoop(lines, i + 1, branches)
      ELSE ParseLoop(lines, i + 1,
             BTreeInsert(branches, StripPrefixOr(trimmed, "refs/heads/")))

\* parse_worktree_branches, on the lines of the listing
parse_worktree_branches(lines) == ParseLoop(lines, 1, <<>>)

(***************************************************************************)
(* Command executor: what a git call returns                               *)
(***************************************************************************)
\* status of a call: "ok" exit status 0, "fail" another exit status,
\* "spawn" the process could not be started (Command::output fails)
Outcomes == {"ok", "fail", "spawn"}

\* mutant: the exit status is not looked at
RunGitSuccessOkMut(o) == o # "spawn"

\* mutant: every call counts as a success
RunGitSuccessAlwaysMut(o) == TRUE

\* run_git_success returns Ok: the process ran and its exit status is 0
\* ("silent" is an exit status 0 with nothing printed)
RunGitSuccessOk(o) == o \in {"ok", "silent"}

NoErr == [msg |-> "", command |-> <<>>, recovery |-> <<>>]

RECURSIVE JoinArgs(_, _)
JoinArgs(args, i) ==
  IF i > Len(args) THEN <<>>
  ELSE (IF i > 1 THEN <<" ">> ELSE <<>>) \o args[i] \o JoinArgs(args, i + 1)

\* describe_args: the arguments joined by single spaces
describe_args(args) == JoinArgs(args, 1)

\* the error of run_git_success (or of run_git itself) for a call that did
\* not succeed
GitErr(o, context, args) ==
  IF o = "spawn"
  THEN [msg |-> "io error", command |-> <<>>, recovery |-> <<>>]
  ELSE [msg |-> context, command |-> describe_args(args), recovery |-> <<>>]

\* combined_output: trimmed stdout, then trimmed stderr on a new line
combined_output(output) ==
  LET out == Trim(output.stdout)
      err == Trim(output.stderr)
  IN  out \o (IF err # <<>> THEN (IF out # <<>> THEN <<"\n">> ELSE <<>>) \o err
              ELSE <<>>)

Digits == <<"0", "1", "2", "3", "4", "5", "6", "7", "8", "9">>

\* the positional reference of the n-th newest stash entry, n from 0
StashRef(n) == <<"stash@{", Digits[n + 1], "}">>

\* the position a reference names, or -1 when it names none
RefIndex(ref) ==
  IF \E n \in 0..9 : StashRef(n) = ref
  THEN CHOOSE n \in 0..9 : StashRef(n) = ref
  ELSE -1

\* output of `git stash list --format=%H:%gd`: one line per entry, newest
\* first
StashListLines(store) ==
  [i \in 1..Len(store) |-> store[i].hash \o <<":">> \o StashRef(i - 1)]

RECURSIVE FindRefLoop(_, _, _)
FindRefLoop(lines, hash, i) ==
  IF i > Len(lines) THEN <<>>
  ELSE LET sp == SplitOnce(lines[i], ":") IN
         IF sp # <<>> /\ sp[1][1] = hash THEN << Trim(sp[1][2]) >>
         ELSE FindRefLoop(lines, hash, i + 1)

\* find_stash_reference, on the lines of a successful listing
find_stash_reference(lines, hash) == FindRefLoop(lines, hash, 1)

\* the sequence s without its i-th element
RemoveAt(s, i) == SubSeq(s, 1, i - 1) \o SubSeq(s, i + 1, Len(s))

(***************************************************************************)
(* State                                                                   *)
(***************************************************************************)
VARIABLES
  disk,      \* the paths that exist on disk
  head,      \* worktree -> the branch its head is on, or DETACHED
  changes,   \* worktree -> its uncommitted and untracked changes
  store,     \* the repository's stash list, newest entry first
  shownA,    \* the path under which the listing shows the main worktree
  trail,     \* whether the listing ends with a blank line
  destination_worktree_dir,   \* Cli
  source_branch_name,         \* Cli
  dest_dir, dest_branch, src_dir,   \* locals of run
  dest_stash, src_stash,      \* Option<StashRecord>
  hash,      \* local of stash_worktree
  pc,        \* the step run is about to take
  side,      \* "dest" or "src": the worktree the stash steps work on
  result,    \* what run returned
  stderr,    \* the warnings printed so far
  log,       \* every git call issued so far, in order
  dropped,   \* the hashes of the entries `stash drop` removed, in order
  start,     \* head, changes and store when the run started
  porcelain, \* the lines of a worktree listing given to the two parsers
  target,    \* the branch find_worktree_for_branch was asked for
  found,     \* Option: what find_worktree_for_branch returned
  listed     \* Option: what parse_worktree_branches returned

envVars   == <<disk, head, changes, store, shownA, trail>>
cliVars   == <<destination_worktree_dir, source_branch_name>>
localVars == <<dest_dir, dest_branch, src_dir, dest_stash, src_stash, hash>>
parseVars == <<porcelain, target, found, listed>>
vars == <<envVars, cliVars, localVars, pc, side, result, stderr, log,
          dropped, start, parseVars>>

EditOf(w) == IF w = WtA THEN "editA" ELSE "editB"

\* the hash git gives the stash commit created in worktree w
NewHash(w) == IF w = WtA THEN <<"hashA">> ELSE <<"hashB">>

\* an entry that is in the stash list before the run
PreEntry(i) ==
  [hash |-> <<"hashP", Digits[i + 1]>>, content |-> {"old"},
   message |-> <<"WIP">>]

Init ==
  /\ disk \in {{WtA, LinkA, Plain, File, GitDir, WtB},
               {WtA, LinkA, Plain, File, GitDir}}
  /\ head \in {h \in [Worktrees -> {Main, Feat, DETACHED}] :
                 h[WtA] = h[WtB] => h[WtA] = DETACHED}
  /\ changes \in {c \in [Worktrees -> SUBSET {"editA", "editB"}] :
                    /\ \A w \in Worktrees : c[w] \subseteq {EditOf(w)}
                    /\ WtB \notin disk => c[WtB] = {}}
  /\ \E n \in 0..MaxPre : store = [i \in 1..n |-> PreEntry(i)]
  /\ shownA \in {WtA, LinkA}
  /\ trail \in BOOLEAN
  /\ destination_worktree_dir \in Paths
  /\ source_branch_name \in Branches
  /\ dest_dir = <<>> /\ dest_branch = <<>> /\ src_dir = <<>>
  /\ dest_stash = <<>> /\ src_stash = <<>> /\ hash = <<>>
  /\ pc = "canonicalize_dir"
  /\ side = "dest"
  /\ result = [kind |-> "none", err |-> NoErr]
  /\ stderr = <<>>
  /\ log = <<>>
  /\ dropped = <<>>
  /\ start = [head |-> head, changes |-> changes, store |-> store]
  /\ porcelain = <<>> /\ target = <<>> /\ found = <<>> /\ listed = <<>>

\* one git call as recorded in the log; stdout and stderr are recorded for
\* `stash push` only
Call(dir, args, status) ==
  [dir |-> dir, args |-> args, status |-> status,
   stdout |-> <<>>, stderr |-> <<>>]

\* run returns Err(e)
Fail(e) ==
  /\ result' = [kind |-> "Err", err |-> e]
  /\ pc' = "done"

Msg(m) == [msg |-> m, command |-> <<>>, recovery |-> <<>>]

(***************************************************************************)
(* Step 1, 2: validate                                                     *)
(***************************************************************************)
\* canonicalize_dir(&dest_arg)?
CanonicalizeDir ==
  /\ pc = "canonicalize_dir"
  /\ IF ~Exists(disk, destination_worktree_dir)
     THEN Fail(Msg("Destination directory does not exist.")) /\ UNCHANGED dest_dir
     ELSE IF ~IsDir(disk, destination_worktree_dir)
     THEN Fail(Msg("is not a directory.")) /\ UNCHANGED dest_dir
     ELSE /\ dest_dir' = Canonicalize(disk, destination_worktree_dir)[1]
          /\ pc' = "ensure_git_worktree"
          /\ UNCHANGED result
  /\ UNCHANGED <<envVars, cliVars, dest_branch, src_dir, dest_stash,
                 src_stash, hash, side, stderr, log, dropped, start, parseVars>>

\* what `rev-parse --is-inside-work-tree` can answer in dir
ProbeAnswers(dir) ==
  IF WorktreeAt(dir) \in Worktrees
  THEN {[status |-> "ok", stdout |-> <<"true", "\n">>],
        [status |-> "fail", stdout |-> <<>>],
        [status |-> "spawn", stdout |-> <<>>]}
  ELSE IF dir = GitDir
  THEN {[status |-> "ok", stdout |-> <<"false", "\n">>],
        [status |-> "spawn", stdout |-> <<>>]}
  ELSE {[status |-> "fail", stdout |-> <<>>],
        [status |-> "spawn", stdout |-> <<>>]}

\* ensure_git_worktree(&dest_dir)?
EnsureGitWorktree ==
  /\ pc = "ensure_git_worktree"
  /\ \E a \in ProbeAnswers(dest_dir) :
       LET args == << <<"rev-parse">>, <<"--is-inside-work-tree">> >> IN
       /\ log' = Append(log, Call(dest_dir, args, a.status))
       /\ IF ~RunGitSuccessOk(a.status)
          THEN Fail(GitErr(a.status,
                 "Failed to determine whether destination is a git worktree.",
                 args))
          ELSE IF Trim(a.stdout) # <<"true">>
          THEN Fail(Msg("is not inside a git worktree."))
          ELSE pc' = "determine_repo_root" /\ UNCHANGED result
  /\ UNCHANGED <<envVars, cliVars, localVars, side, stderr, dropped, start, parseVars>>

\* the statuses git can return for a query made in dir
QueryStatuses(dir) ==
  IF WorktreeAt(dir) \in Worktrees THEN Outcomes ELSE {"fail", "spawn"}

\* determine_repo_root(&dest_dir)?  (the root is used for display only)
DetermineRepoRoot ==
  /\ pc = "determine_repo_root"
  /\ \E o \in QueryStatuses(dest_dir) :
       LET args == << <<"rev-parse">>, <<"--git-common-dir">> >> IN
       /\ log' = Append(log, Call(dest_dir, args, o))
       /\ IF ~RunGitSuccessOk(o)
          THEN Fail(GitErr(o, "Failed to determine repository root.", args))
          ELSE pc' = "current_branch" /\ UNCHANGED result
  /\ UNCHANGED <<envVars, cliVars, localVars, side, stderr, dropped, start, parseVars>>

\* what `symbolic-ref --short HEAD` can answer in dir
SymbolicRefAnswers(dir) ==
  IF head[WorktreeAt(dir)] = DETACHED
  THEN {[status |-> "fail", stdout |-> <<>>],
        [status |-> "spawn", stdout |-> <<>>],
        [status |-> "ok", stdout |-> <<"\n">>]}
  ELSE {[status |-> "ok", stdout |-> head[WorktreeAt(dir)] \o <<"\n">>],
        [status |-> "fail", stdout |-> <<>>],
        [status |-> "spawn", stdout |-> <<>>]}

\* current_branch(&dest_dir)?
CurrentBranch ==
  /\ pc = "current_branch"
  /\ \E a \in SymbolicRefAnswers(dest_dir) :
       LET args == << <<"symbolic-ref">>, <<"--short">>, <<"HEAD">> >> IN
       /\ log' = Append(log, Call(dest_dir, args, a.status))
       /\ IF ~RunGitSuccessOk(a.status)
          THEN /\ Fail(GitErr(a.status,
                              "Failed to determine destination branch.", args))
               /\ UNCHANGED dest_branch
          ELSE IF Trim(a.stdout) = <<>>
          THEN /\ Fail(Msg("Could not determine branch."))
               /\ UNCHANGED dest_branch
          ELSE /\ dest_branch' = Trim(a.stdout)
               /\ pc' = "find_worktree_for_branch"
               /\ UNCHANGED result
  /\ UNCHANGED <<envVars, cliVars, dest_dir, src_dir, dest_stash, src_stash,
                 hash, side, stderr, dropped, start, parseVars>>

\* find_worktree_for_branch(&dest_dir, &src_branch)?
FindWorktreeForBranch ==
  /\ pc = "find_worktree_for_branch"
  /\ \E o \in Outcomes :
       LET args == << <<"worktree">>, <<"list">>, <<"--porcelain">> >>
           r == find_worktree_for_branch(disk, dest_dir, source_branch_name,
                  WorktreeListPorcelain(head, shownA, trail))
       IN
       /\ log' = Append(log, Call(dest_dir, args, o))
       /\ IF ~RunGitSuccessOk(o)
          THEN Fail(GitErr(o, "Failed to list worktrees.", args))
               /\ UNCHANGED src_dir
          ELSE IF ~r.ok
          THEN Fail(Msg(r.err)) /\ UNCHANGED src_dir
          ELSE /\ src_dir' = r.path
               /\ pc' = "identity_check"
               /\ UNCHANGED result
  /\ UNCHANGED <<envVars, cliVars, dest_dir, dest_branch, dest_stash,
                 src_stash, hash, side, stderr, dropped, start, parseVars>>

ErrSame == "Source and destination directories are the same. Nothing to swap."

\* dest_dir.canonicalize()? == src_dir.canonicalize()?
IdentityCheck ==
  /\ pc = "identity_check"
  /\ LET dest_dir_canon == Canonicalize(disk, dest_dir)
         src_dir_canon  == Canonicalize(disk, src_dir)
     IN IF dest_dir_canon = <<>> \/ src_dir_canon = <<>>
        THEN Fail(Msg("io error")) /\ UNCHANGED side
        ELSE IF dest_dir_canon = src_dir_canon
        THEN Fail(Msg(ErrSame)) /\ UNCHANGED side
        ELSE pc' = "stash_push" /\ side' = "dest" /\ UNCHANGED result
  /\ UNCHANGED <<envVars, cliVars, localVars, stderr, log, dropped, start, parseVars>>

(***************************************************************************)
(* Step 3: capture (stash_worktree for the destination, then the source)   *)
(***************************************************************************)
\* the directory and the branch stash_worktree is called with
CaptureDir(sd)    == IF sd = "dest" THEN dest_dir ELSE src_dir
CaptureBranch(sd) == IF sd = "dest" THEN dest_branch ELSE source_branch_name

Sentinel == <<"No local changes to save">>

\* what `git stash push -u -m <message>` can answer in a worktree: `saved`
\* tells whether git created a stash entry
PushAnswers(clean) ==
  (IF clean
   THEN {[status |-> st, stdout |-> Sentinel \o <<"\n">>, stderr |-> <<>>,
          saved |-> FALSE] : st \in {"ok", "fail"}}
   ELSE {[status |-> "ok", stdout |-> <<"Saved working directory", "\n">>,
          stderr |-> <<>>, saved |-> TRUE]})
  \cup {[status |-> "fail", stdout |-> <<>>,
         stderr |-> <<"fatal: cannot save", "\n">>, saved |-> FALSE],
        [status |-> "spawn", stdout |-> <<>>, stderr |-> <<>>,
         saved |-> FALSE]}

\* mutant: the sentinel counts only with exit status 0
NoLocalChangesMut(output) ==
  output.status = "ok" /\ Trim(combined_output(output)) = Sentinel

\* combined.trim() == "No local changes to save"
NoLocalChanges(output) == Trim(combined_output(output)) = Sentinel

\* mutant: the detaches follow the destination's capture at once
CapturedMut(rec) ==
  /\ result' = result
  /\ dest_stash' = (IF side = "dest" THEN rec ELSE dest_stash)
  /\ src_stash' = (IF side = "dest" THEN src_stash ELSE rec)
  /\ side' = "dest" /\ pc' = "detach_dest"

\* stash_worktree returns Ok(rec): run goes on with the next capture, or
\* with the detaches
Captured(rec) ==
  /\ result' = result
  /\ IF side = "dest"
     THEN /\ dest_stash' = rec /\ src_stash' = src_stash
          /\ side' = "src" /\ pc' = "stash_push"
     ELSE /\ src_stash' = rec /\ dest_stash' = dest_stash
          /\ side' = "dest" /\ pc' = "detach_dest"

\* stash_worktree: `git stash push -u -m swap-stash-<branch>`
StashPush ==
  /\ pc = "stash_push"
  /\ LET dir == CaptureDir(side)
         w == WorktreeAt(dir)
         message == <<"swap-stash-">> \o CaptureBranch(side)
         args == << <<"stash">>, <<"push">>, <<"-u">>, <<"-m">>, message >>
     IN \E a \in PushAnswers(changes[w] = {}) :
       /\ log' = Append(log, [Call(dir, args, a.status) EXCEPT
                               !.stdout = a.stdout, !.stderr = a.stderr])
       /\ IF a.saved
          THEN /\ store' = << [hash |-> NewHash(w), content |-> changes[w],
                               message |-> message] >> \o store
               /\ changes' = [changes EXCEPT ![w] = {}]
          ELSE UNCHANGED <<store, changes>>
       /\ IF a.status = "spawn"
          THEN /\ Fail(GitErr("spawn", "", args))
               /\ UNCHANGED <<dest_stash, src_stash, side>>
          ELSE IF NoLocalChanges(a)
          THEN Captured(<<>>)
          ELSE IF a.status # "ok"
          THEN /\ Fail([msg |-> "Failed to create stash",
                        command |-> combined_output(a), recovery |-> <<>>])
               /\ UNCHANGED <<dest_stash, src_stash, side>>
          ELSE /\ pc' = "stash_rev_parse"
               /\ UNCHANGED <<dest_stash, src_stash, side, result>>
  /\ UNCHANGED <<disk, head, shownA, trail, cliVars, dest_dir, dest_branch,
                 src_dir, hash, stderr, dropped, start, parseVars>>

\* stash_worktree: `git rev-parse stash@{0}`
StashRevParse ==
  /\ pc = "stash_rev_parse"
  /\ LET dir == CaptureDir(side)
         args == << <<"rev-parse">>, StashRef(0) >>
     IN \E o \in (IF store = <<>> THEN {"fail", "spawn"} ELSE Outcomes) :
       /\ log' = Append(log, Call(dir, args, o))
       /\ IF ~RunGitSuccessOk(o)
          THEN /\ Fail(GitErr(o, "Failed to determine stash SHA.", args))
               /\ UNCHANGED hash
          ELSE /\ hash' = Trim(store[1].hash \o <<"\n">>)
               /\ pc' = "find_stash_reference"
               /\ UNCHANGED result
  /\ UNCHANGED <<envVars, cliVars, dest_dir, dest_branch, src_dir, dest_stash,
                 src_stash, side, stderr, dropped, start, parseVars>>

\* what `git stash list --format=%H:%gd` can answer: "silent" is exit
\* status 0 with no line printed
ListAnswers == Outcomes \cup {"silent"}

\* stash_worktree: find_stash_reference(dir, &hash)? and the StashRecord
FindStashReference ==
  /\ pc = "find_stash_reference"
  /\ LET dir == CaptureDir(side)
         args == << <<"stash">>, <<"list">>, <<"--format=%H:%gd">> >>
     IN \E o \in ListAnswers :
       LET lines == IF o = "silent" THEN <<>> ELSE StashListLines(store)
           reference == find_stash_reference(lines, hash)
       IN
       /\ log' = Append(log, Call(dir, args, o))
       /\ IF ~RunGitSuccessOk(o)
          THEN /\ Fail(GitErr(o, "Failed to list stashes.", args))
               /\ UNCHANGED <<dest_stash, src_stash, side>>
          ELSE Captured(<< [hash |-> hash, reference |-> reference,
                            branch |-> CaptureBranch(side)] >>)
  /\ UNCHANGED <<envVars, cliVars, dest_dir, dest_branch, src_dir, hash,
                 stderr, dropped, start, parseVars>>

(***************************************************************************)
(* Step 4: detach both heads                                               *)
(***************************************************************************)
DetachArgs == << <<"switch">>, <<"--detach">> >>
SwitchArgs(branch) == << <<"switch">>, branch >>

\* the statuses `git switch <branch>` can return in worktree w: git refuses
\* a branch that another worktree has checked out
SwitchStatuses(w, branch) ==
  IF \E v \in Worktrees \ {w} : head[v] = branch
  THEN {"fail", "spawn"} ELSE Outcomes

\* detach_worktree(&dest_dir, &dest_branch, &logger)?
DetachDest ==
  /\ pc = "detach_dest"
  /\ \E o \in Outcomes :
       /\ log' = Append(log, Call(dest_dir, DetachArgs, o))
       /\ head' = IF o = "ok"
                  THEN [head EXCEPT ![WorktreeAt(dest_dir)] = DETACHED]
                  ELSE head
       /\ IF RunGitSuccessOk(o)
          THEN pc' = "detach_src" /\ UNCHANGED result
          ELSE Fail(GitErr(o, "Failed to detach worktree.", DetachArgs))
  /\ UNCHANGED <<disk, changes, store, shownA, trail, cliVars, localVars,
                 side, stderr, dropped, start, parseVars>>

\* detach_worktree(&src_dir, &src_branch, &logger), and on Err the two
\* lines printed before the restore
DetachSrc ==
  /\ pc = "detach_src"
  /\ \E o \in Outcomes :
       /\ log' = Append(log, Call(src_dir, DetachArgs, o))
       /\ head' = IF o = "ok"
                  THEN [head EXCEPT ![WorktreeAt(src_dir)] = DETACHED]
                  ELSE head
       /\ IF RunGitSuccessOk(o)
          THEN pc' = "switch_dest" /\ UNCHANGED stderr
          ELSE /\ pc' = "restore"
               /\ stderr' = stderr \o
                    << [text |-> "Error: Failed to detach worktree.",
                        about |-> src_dir],
                       [text |-> "Attempting to restore",
                        about |-> dest_branch] >>
  /\ UNCHANGED <<disk, changes, store, shownA, trail, cliVars, localVars,
                 side, result, dropped, start, parseVars>>

ErrDetachSrc == "Failed to detach source worktree. Aborting."

\* mutant: the restore switches to the source's branch
RestoreArgsMut == SwitchArgs(source_branch_name)

\* the arguments of the restore command
RestoreArgs == SwitchArgs(dest_branch)

\* let _ = run_git(Some(&dest_dir), ["switch", &dest_branch]); return Err
RestoreDest ==
  /\ pc = "restore"
  /\ \E o \in SwitchStatuses(WorktreeAt(dest_dir), RestoreArgs[2]) :
       /\ log' = Append(log, Call(dest_dir, RestoreArgs, o))
       /\ head' = IF o = "ok"
                  THEN [head EXCEPT ![WorktreeAt(dest_dir)] = RestoreArgs[2]]
                  ELSE head
       /\ Fail(Msg(ErrDetachSrc))
  /\ UNCHANGED <<disk, changes, store, shownA, trail, cliVars, localVars,
                 side, stderr, dropped, start, parseVars>>

(***************************************************************************)
(* Step 5: switch both heads to the swapped branches                       *)
(***************************************************************************)
\* switch_worktree(&dest_dir, &src_branch, &logger)?
SwitchDest ==
  /\ pc = "switch_dest"
  /\ \E o \in SwitchStatuses(WorktreeAt(dest_dir), source_branch_name) :
       LET args == SwitchArgs(source_branch_name) IN
       /\ log' = Append(log, Call(dest_dir, args, o))
       /\ head' = IF o = "ok"
                  THEN [head EXCEPT
                          ![WorktreeAt(dest_dir)] = source_branch_name]
                  ELSE head
       /\ IF RunGitSuccessOk(o)
          THEN pc' = "switch_src" /\ UNCHANGED result
          ELSE Fail(GitErr(o, "Failed to switch worktree branch.", args))
  /\ UNCHANGED <<disk, changes, store, shownA, trail, cliVars, localVars,
                 side, stderr, dropped, start, parseVars>>

\* mutant: the two directories are exchanged in the message
CriticalErrMut(inner) ==
  [msg |-> "CRITICAL STATE",
   command |-> inner.command,
   recovery |-> << [dir |-> src_dir, args |-> SwitchArgs(source_branch_name)],
                   [dir |-> dest_dir, args |-> SwitchArgs(dest_branch)] >>]

\* the CRITICAL STATE error: the inner error and the two commands the
\* message tells the operator to run, as `git -C <dir> switch <branch>`
CriticalErr(inner) ==
  [msg |-> "CRITICAL STATE",
   command |-> inner.command,
   recovery |-> << [dir |-> dest_dir, args |-> SwitchArgs(source_branch_name)],
                   [dir |-> src_dir, args |-> SwitchArgs(dest_branch)] >>]

\* switch_worktree(&src_dir, &dest_branch, &logger), Err mapped to the
\* CRITICAL STATE error
SwitchSrc ==
  /\ pc = "switch_src"
  /\ \E o \in SwitchStatuses(WorktreeAt(src_dir), dest_branch) :
       LET args == SwitchArgs(dest_branch) IN
       /\ log' = Append(log, Call(src_dir, args, o))
       /\ head' = IF o = "ok"
                  THEN [head EXCEPT ![WorktreeAt(src_dir)] = dest_branch]
                  ELSE head
       /\ IF RunGitSuccessOk(o)
          THEN pc' = "apply" /\ side' = "dest" /\ UNCHANGED result
          ELSE /\ Fail(CriticalErr(
                    GitErr(o, "Failed to switch worktree branch.", args)))
               /\ UNCHANGED side
  /\ UNCHANGED <<disk, changes, store, shownA, trail, cliVars, localVars,
                 stderr, dropped, start, parseVars>>

(***************************************************************************)
(* Step 6: reapply (apply_and_drop_stash in dest_dir, then in src_dir)     *)
(***************************************************************************)
\* the arguments of the two apply_and_drop_stash calls
\* mutant: the first reapply is made in the source, the second in the
\* destination
ApplyDirSwapMut(sd) == IF sd = "dest" THEN src_dir ELSE dest_dir

ApplyDir(sd) == IF sd = "dest" THEN dest_dir ELSE src_dir

\* mutant: each snapshot goes back to the worktree it came from
ApplyStashMut(sd) == IF sd = "dest" THEN dest_stash ELSE src_stash

ApplyStash(sd) == IF sd = "dest" THEN src_stash ELSE dest_stash

\* the changes the stash commit h holds (the commit outlives its list entry)
StashContent(h) ==
  IF \E w \in Worktrees : NewHash(w) = h
  THEN start.changes[CHOOSE w \in Worktrees : NewHash(w) = h]
  ELSE {}

\* mutant: run returns an error when a warning was printed before the last
\* step
ReappliedMut ==
  IF side = "dest"
  THEN side' = "src" /\ pc' = "apply" /\ UNCHANGED result
  ELSE /\ side' = side /\ pc' = "done"
       /\ result' = IF stderr # <<>>
                    THEN [kind |-> "Err", err |-> Msg("Completed with warnings")]
                    ELSE [kind |-> "Ok", err |-> NoErr]

\* mutant: run returns after the first apply_and_drop_stash call
ReappliedOnceMut ==
  side' = side /\ pc' = "done" /\ result' = [kind |-> "Ok", err |-> NoErr]

\* apply_and_drop_stash returns: run goes on with the second call, or
\* returns Ok(())
Reapplied ==
  IF side = "dest"
  THEN side' = "src" /\ pc' = "apply" /\ UNCHANGED result
  ELSE side' = side /\ pc' = "done" /\ result' = [kind |-> "Ok", err |-> NoErr]

KeptWarnings(text, stash, dir) ==
  << [text |-> text, about |-> stash.hash],
     [text |-> "The stash has been kept. Please resolve manually in",
      about |-> dir] >>

\* apply_and_drop_stash up to the drop: `git stash apply <hash>`
ApplyStashStep ==
  /\ pc = "apply"
  /\ LET dir == ApplyDir(side)
         w == WorktreeAt(dir)
     IN
     IF ApplyStash(side) = <<>>
     THEN /\ Reapplied
          /\ UNCHANGED <<changes, log, stderr>>
     ELSE LET stash == ApplyStash(side)[1]
              args == << <<"stash">>, <<"apply">>, stash.hash >>
          IN \E o \in Outcomes :
            /\ log' = Append(log, Call(dir, args, o))
            /\ changes' = IF o = "ok"
                 THEN [changes EXCEPT ![w] = @ \cup StashContent(stash.hash)]
                 ELSE changes
            /\ IF o = "ok" /\ stash.reference # <<>>
               THEN /\ pc' = "drop"
                    /\ UNCHANGED <<side, result, stderr>>
               ELSE IF o = "ok"
               THEN /\ Reapplied
                    /\ stderr' = Append(stderr,
                         [text |-> "Warning: Could not determine stash reference",
                          about |-> stash.hash])
               ELSE /\ Reapplied
                    /\ stderr' = stderr \o
                         KeptWarnings("Warning: Failed to apply stash",
                                      stash, dir)
  /\ UNCHANGED <<disk, head, store, shownA, trail, cliVars, localVars,
                 dropped, start, parseVars>>

\* the statuses `git stash drop <reference>` can return: git fails on a
\* reference that names no entry
DropStatuses(reference) ==
  IF RefIndex(reference) >= 0 /\ RefIndex(reference) < Len(store)
  THEN Outcomes ELSE {"fail", "spawn"}

\* apply_and_drop_stash after a successful apply: drop_stash(dir, reference)
DropStashStep ==
  /\ pc = "drop"
  /\ LET dir == ApplyDir(side)
         reference == ApplyStash(side)[1].reference[1]
         args == << <<"stash">>, <<"drop">>, reference >>
     IN \E o \in DropStatuses(reference) :
       /\ log' = Append(log, Call(dir, args, o))
       /\ IF o = "ok"
          THEN /\ store' = RemoveAt(store, RefIndex(reference) + 1)
               /\ dropped' = Append(dropped,
                                    store[RefIndex(reference) + 1].hash)
               /\ UNCHANGED stderr
          ELSE /\ stderr' = Append(stderr,
                    [text |-> "Warning: Failed to drop applied stash",
                     about |-> reference])
               /\ UNCHANGED <<store, dropped>>
       /\ Reapplied
  /\ UNCHANGED <<disk, head, changes, shownA, trail, cliVars, localVars,
                 start, parseVars>>

Next ==
  \/ CanonicalizeDir
  \/ EnsureGitWorktree
  \/ DetermineRepoRoot
  \/ CurrentBranch
  \/ FindWorktreeForBranch
  \/ IdentityCheck
  \/ StashPush
  \/ StashRevParse
  \/ FindStashReference
  \/ DetachDest
  \/ DetachSrc
  \/ RestoreDest
  \/ SwitchDest
  \/ SwitchSrc
  \/ ApplyStashStep
  \/ DropStashStep

Spec == Init /\ [][Next]_vars

\* the exit code of the process once run has returned
ExitCode == IF result.kind = "Err" THEN 1 ELSE 0

(***************************************************************************)
(* The two parsers of the worktree listing on arbitrary listings           *)
(***************************************************************************)
\* the lines a listing is made of here
ListingLines ==
  { <<"worktree ", "/wtA">>,
    <<"worktree ", "/missing">>,
    <<"branch ", "refs/heads/", "main">>,
    <<"branch ", " ", "main", " ">>,
    <<"branch ", "refs/heads/", "feat">>,
    <<"branch ", "refs/heads/">>,
    <<>> }

\* the branches find_worktree_for_branch is asked for here
Targets == {Main, <<>>}

\* no run is going on: the parsers are called from /wtA on a disk where
\* /wtA exists and /missing does not
ParseInit ==
  /\ disk = {WtA, LinkA, Plain, File, GitDir, WtB}
  /\ head = [w \in Worktrees |-> IF w = WtA THEN Main ELSE Feat]
  /\ changes = [w \in Worktrees |-> {}]
  /\ store = <<>>
  /\ shownA = WtA
  /\ trail = TRUE
  /\ destination_worktree_dir = WtA
  /\ source_branch_name = Main
  /\ dest_dir = WtA /\ dest_branch = <<>> /\ src_dir = <<>>
  /\ dest_stash = <<>> /\ src_stash = <<>> /\ hash = <<>>
  /\ pc = "parse"
  /\ side = "dest"
  /\ result = [kind |-> "none", err |-> NoErr]
  /\ stderr = <<>>
  /\ log = <<>>
  /\ dropped = <<>>
  /\ start = [head |-> head, changes |-> changes, store |-> store]
  /\ porcelain = <<>> /\ target = <<>> /\ found = <<>> /\ listed = <<>>

runVars == <<envVars, cliVars, localVars, pc, side, result, stderr, log,
             dropped, start>>

\* the listing has one more line
ListingLine ==
  /\ pc = "parse" /\ found = <<>> /\ listed = <<>>
  /\ Len(porcelain) < MaxLines
  /\ \E line \in ListingLines : porcelain' = Append(porcelain, line)
  /\ UNCHANGED <<runVars, target, found, listed>>

\* find_worktree_for_branch(dir, branch) on the listing
FindOnListing ==
  /\ pc = "parse" /\ found = <<>> /\ listed = <<>>
  /\ \E branch \in Targets :
       /\ target' = branch
       /\ found' = << find_worktree_for_branch(disk, dest_dir, branch,
                                               porcelain) >>
  /\ UNCHANGED <<runVars, porcelain, listed>>

\* parse_worktree_branches(porcelain) on the listing
ParseOnListing ==
  /\ pc = "parse" /\ found = <<>> /\ listed = <<>>
  /\ listed' = << parse_worktree_branches(porcelain) >>
  /\ UNCHANGED <<runVars, porcelain, target, found>>

ParseNext ==
  \/ ListingLine
  \/ FindOnListing
  \/ ParseOnListing

ParseSpec == ParseInit /\ [][ParseNext]_vars

(***************************************************************************)
(* Vocabulary of the properties                                            *)
(***************************************************************************)
DestWt == WorktreeAt(dest_dir)
SrcWt  == WorktreeAt(src_dir)

Done        == pc = "done"
ReturnedOk  == result.kind = "Ok"
ReturnedErr == result.kind = "Err"

IsPush(c)   == c.args[1] = <<"stash">> /\ c.args[2] = <<"push">>
IsApply(c)  == c.args[1] = <<"stash">> /\ c.args[2] = <<"apply">>
IsDrop(c)   == c.args[1] = <<"stash">> /\ c.args[2] = <<"drop">>
IsDetach(c) == c.args = DetachArgs
IsSwitch(c) == c.args[1] = <<"switch">> /\ c.args # DetachArgs
IsMutating(c) ==
  IsPush(c) \/ IsApply(c) \/ IsDrop(c) \/ IsDetach(c) \/ IsSwitch(c)

LogIdx == 1..Len(log)
NoMutatingCall == \A i \in LogIdx : ~IsMutating(log[i])
AllCallsOk     == \A i \in LogIdx : log[i].status = "ok"
LastCall       == log[Len(log)]

\* head, changes and stash list are as they were when the run started
Untouched ==
  /\ head = start.head
  /\ changes = start.changes
  /\ store = start.store

InStore(h) == \E k \in 1..Len(store) : store[k].hash = h

(***************************************************************************)
(* C1                                                                      *)
(***************************************************************************)
\* C1: whenever run returns Ok, the destination's head is on the branch the
\* source worktree held at the start and the source's head is on the branch
\* the destination held at the start, whatever git calls failed on the way.
C1_SwappedOnOk ==
  ReturnedOk =>
    /\ start.head[SrcWt] # DETACHED /\ start.head[DestWt] # DETACHED
    /\ head[DestWt] = start.head[SrcWt]
    /\ head[SrcWt] = start.head[DestWt]

\* a run that returned Ok although an apply and a drop failed
C1_Witness ==
  /\ ReturnedOk
  /\ \E i \in LogIdx : IsApply(log[i]) /\ log[i].status # "ok"
  /\ \E i \in LogIdx : IsDrop(log[i]) /\ log[i].status # "ok"

(***************************************************************************)
(* C2                                                                      *)
(***************************************************************************)
\* C2: every entry a `stash drop` removed from the (shared) stash list is an
\* entry whose hash was passed to a `stash apply` that returned success
\* earlier in the same run.
C2_DropOnlyApplied ==
  \A k \in 1..Len(dropped) :
    \E i \in LogIdx :
      /\ IsApply(log[i])
      /\ log[i].args[3] = dropped[k]
      /\ log[i].status = "ok"

(***************************************************************************)
(* C3                                                                      *)
(***************************************************************************)
\* the run went past the identity check with both worktrees holding changes
BothCaptured ==
  /\ \E i \in LogIdx : IsPush(log[i])
  /\ start.changes[DestWt] # {}
  /\ start.changes[SrcWt] # {}

ApplyCalls == {i \in LogIdx : IsApply(log[i])}

\* C3: when both worktrees have local changes and every git call succeeds,
\* the destination's snapshot is applied in the source directory and the
\* source's snapshot in the destination directory, each exactly once and
\* never to its origin, and at termination the stash list is the one the
\* run started with.
C3_CrossApplied ==
  (Done /\ AllCallsOk /\ BothCaptured) =>
    /\ ReturnedOk
    /\ dest_stash # <<>> /\ src_stash # <<>>
    /\ dest_stash[1].hash = NewHash(DestWt)
    /\ src_stash[1].hash = NewHash(SrcWt)
    /\ Cardinality(ApplyCalls) = 2
    /\ \E i \in ApplyCalls :
         log[i].dir = src_dir /\ log[i].args[3] = dest_stash[1].hash
    /\ \E i \in ApplyCalls :
         log[i].dir = dest_dir /\ log[i].args[3] = src_stash[1].hash
    /\ changes[SrcWt] = start.changes[DestWt]
    /\ changes[DestWt] = start.changes[SrcWt]
    /\ store = start.store

\* such a run, with an older entry in the stash list
C3_Witness ==
  /\ Done /\ AllCallsOk /\ BothCaptured
  /\ start.store # <<>>
  /\ dropped = <<NewHash(SrcWt), NewHash(DestWt)>>

(***************************************************************************)
(* C4                                                                      *)
(***************************************************************************)
IsRevParseStash(c) == c.args = << <<"rev-parse">>, StashRef(0) >>
IsStashList(c) == c.args[1] = <<"stash">> /\ c.args[2] = <<"list">>

\* stash_worktree returned an error: run ended on a failed call of capture
CaptureFailed ==
  /\ Done /\ ReturnedErr /\ log # <<>>
  /\ IsPush(LastCall) \/ IsRevParseStash(LastCall) \/ IsStashList(LastCall)

\* C4: when stash_worktree returns an error for either worktree, both
\* worktrees' branches, their uncommitted changes and the stash list are at
\* termination exactly as they were before the run.
C4_CaptureFailureMutatesNothing == CaptureFailed => Untouched

(***************************************************************************)
(* C5                                                                      *)
(***************************************************************************)
\* the source's switch failed after the destination's switch succeeded
SwitchSrcFailed ==
  /\ Done /\ Len(log) >= 2
  /\ IsSwitch(LastCall) /\ LastCall.dir = src_dir /\ LastCall.status # "ok"
  /\ IsSwitch(log[Len(log) - 1]) /\ log[Len(log) - 1].dir = dest_dir
  /\ log[Len(log) - 1].status = "ok"

RecoveryCommands == {result.err.recovery[i] : i \in 1..Len(result.err.recovery)}

\* C5 as stated: the error names exactly `switch <src_branch>` for the
\* source directory and `switch <dest_branch>` for the destination directory.
C5_RecoveryAsStated ==
  SwitchSrcFailed =>
    /\ ReturnedErr /\ ExitCode = 1
    /\ RecoveryCommands =
         {[dir |-> src_dir, args |-> SwitchArgs(start.head[SrcWt])],
          [dir |-> dest_dir, args |-> SwitchArgs(start.head[DestWt])]}

\* C5 amended: the error names exactly `switch <src_branch>` for the
\* destination directory and `switch <dest_branch>` for the source
\* directory, in this order.
C5_RecoveryNamesSwappedTargets ==
  SwitchSrcFailed =>
    /\ ReturnedErr /\ ExitCode = 1
    /\ result.err.recovery =
         << [dir |-> dest_dir, args |-> SwitchArgs(start.head[SrcWt])],
            [dir |-> src_dir, args |-> SwitchArgs(start.head[DestWt])] >>

C5_Witness ==
  /\ SwitchSrcFailed
  /\ head[DestWt] = source_branch_name
  /\ head[SrcWt] = DETACHED

(***************************************************************************)
(* C6                                                                      *)
(***************************************************************************)
\* a switch of step 5 failed (the restore after a failed detach is not one)
Step5Failed ==
  /\ Done /\ log # <<>>
  /\ IsSwitch(LastCall) /\ LastCall.status # "ok"
  /\ \A i \in LogIdx : IsDetach(log[i]) => log[i].status = "ok"

\* C6: whenever either switch of step 5 fails, the error run reports
\* contains a manual recovery command for each of the two worktrees.
C6_Step5FailureHasRecovery ==
  Step5Failed =>
    /\ ReturnedErr
    /\ \E c \in RecoveryCommands : c.dir = dest_dir
    /\ \E c \in RecoveryCommands : c.dir = src_dir

(***************************************************************************)
(* C7                                                                      *)
(***************************************************************************)
\* the i-th call is the source's detach and it failed
SrcDetachFailedAt(i) ==
  /\ IsDetach(log[i]) /\ log[i].dir = src_dir /\ log[i].status # "ok"

\* C7: after a failed detach of the source, run issues exactly one more
\* mutating command, `switch <dest_branch>` in the destination directory,
\* returns an error whether or not that restore succeeded, and leaves the
\* destination on its original branch (restore succeeded) or detached
\* (restore failed) and the source on its original branch.
C7_RestoreAfterSrcDetachFails ==
  \A i \in LogIdx :
    SrcDetachFailedAt(i) =>
      \/ pc = "restore" /\ Len(log) = i /\ result.kind = "none"
      \/ /\ Done /\ ReturnedErr /\ ExitCode = 1
         /\ Len(log) = i + 1
         /\ log[i + 1].dir = dest_dir
         /\ log[i + 1].args = SwitchArgs(start.head[DestWt])
         /\ head[DestWt] = IF log[i + 1].status = "ok"
                           THEN start.head[DestWt] ELSE DETACHED
         /\ head[SrcWt] = start.head[SrcWt]
         /\ start.head[SrcWt] # DETACHED

\* the source's detach failed and so did the restore
C7_Witness ==
  /\ Done /\ Len(log) >= 2
  /\ SrcDetachFailedAt(Len(log) - 1)
  /\ LastCall.status # "ok"
  /\ head[DestWt] = DETACHED

(***************************************************************************)
(* C8                                                                      *)
(***************************************************************************)
\* capture has completed: the first detach was issued
CaptureCompleted == \E i \in LogIdx : IsDetach(log[i])

Snapshots == {st \in {dest_stash, src_stash} : st # <<>>}

\* C8: in every run that ends with an error after capture has completed, no
\* `stash apply` and no `stash drop` has been issued and every snapshot
\* captured is still in the stash list.
C8_ErrorKeepsSnapshots ==
  (Done /\ ReturnedErr /\ CaptureCompleted) =>
    /\ \A i \in LogIdx : ~IsApply(log[i]) /\ ~IsDrop(log[i])
    /\ \A st \in Snapshots : InStore(st[1].hash)

\* the critical state with two snapshots captured
C8_Witness ==
  /\ Done /\ ReturnedErr /\ CaptureCompleted
  /\ result.err.msg = "CRITICAL STATE"
  /\ Cardinality(Snapshots) = 2

(***************************************************************************)
(* C9                                                                      *)
(***************************************************************************)
\* the worktree found for the source branch is the destination's
SameWorktree == src_dir # <<>> /\ SrcWt = DestWt

\* C9: if the worktree found for the source branch is the destination's
\* directory, run fails with the "same directories" error and issues no
\* mutating git command in the whole run.
C9_SameDirectoryNothingIssued ==
  SameWorktree =>
    /\ NoMutatingCall
    /\ \/ pc = "identity_check" /\ result.kind = "none"
       \/ Done /\ ReturnedErr /\ result.err.msg = ErrSame

\* the error, for a source found under another name of the same directory
C9_Witness ==
  /\ SameWorktree /\ Done
  /\ src_dir # dest_dir

(***************************************************************************)
(* C10                                                                     *)
(***************************************************************************)
IsValidateCall(c) ==
  \/ c.args[1] = <<"rev-parse">> /\ ~IsRevParseStash(c)
  \/ c.args[1] = <<"symbolic-ref">>
  \/ c.args[1] = <<"worktree">>

\* the worktree the destination argument names, when it names one
ArgWt == WorktreeAt(destination_worktree_dir)

\* a Validate step fails: told from the disk, the repository and the
\* answers git gave
ValidateFails ==
  \/ ~IsDir(disk, destination_worktree_dir)
  \/ ArgWt \notin Worktrees
  \/ start.head[ArgWt] = DETACHED
  \/ \A w \in Worktrees : start.head[w] # source_branch_name
  \/ \E w \in Worktrees : start.head[w] = source_branch_name /\ w \notin disk
  \/ \E i \in LogIdx : IsValidateCall(log[i]) /\ log[i].status # "ok"

\* C10: if a Validate step fails, run returns an error and no mutating git
\* command has been issued: branches, changes and stash list are unchanged.
C10_ValidateFailureNothingIssued ==
  ValidateFails =>
    /\ NoMutatingCall
    /\ Untouched
    /\ Done => ReturnedErr

\* the source branch is checked out in a worktree whose directory is gone
C10_Witness ==
  /\ Done /\ ReturnedErr
  /\ result.err.msg = ErrNoDir
  /\ start.head[ArgWt] # DETACHED

(***************************************************************************)
(* C11                                                                     *)
(***************************************************************************)
\* both switches of step 5 have succeeded
BothSwitched ==
  \E i \in LogIdx :
    IsSwitch(log[i]) /\ log[i].dir = src_dir /\ log[i].status = "ok"

\* C11: once both switches of step 5 have succeeded run never returns an
\* error, it returns Ok when it ends, whatever the two applies and the two
\* drops returned, and by then the second reapply (the destination's
\* snapshot in the source directory) has been attempted.
C11_ReapplyNeverFatal ==
  BothSwitched =>
    /\ ~ReturnedErr
    /\ Done =>
         /\ ReturnedOk /\ ExitCode = 0
         /\ dest_stash # <<>> =>
              \E i \in LogIdx :
                /\ IsApply(log[i]) /\ log[i].dir = src_dir
                /\ log[i].args[3] = dest_stash[1].hash

\* both applies failed, the first with an exit status, and run returned Ok
C11_Witness ==
  /\ Done /\ ReturnedOk /\ Len(log) >= 2
  /\ IsApply(LastCall) /\ LastCall.status # "ok"
  /\ IsApply(log[Len(log) - 1]) /\ log[Len(log) - 1].status = "fail"

(***************************************************************************)
(* C12                                                                     *)
(***************************************************************************)
\* a warning tells that the snapshot with hash h was left behind: one that
\* names h, or the one printed for the failed drop that followed its apply
WarnedLeftBehind(h) ==
  \/ \E k \in 1..Len(stderr) : stderr[k].about = h
  \/ \E i \in LogIdx :
       /\ IsApply(log[i]) /\ log[i].args[3] = h
       /\ i + 1 <= Len(log)
       /\ IsDrop(log[i + 1]) /\ log[i + 1].status # "ok"
       /\ \E k \in 1..Len(stderr) :
            stderr[k].text = "Warning: Failed to drop applied stash"

\* C12: whenever run returns Ok, every snapshot captured in step 3 is no
\* longer in the (shared) stash list, or a warning that identifies it as
\* left behind was printed during the run.
C12_LeftBehindIsReported ==
  ReturnedOk =>
    \A st \in Snapshots : ~InStore(st[1].hash) \/ WarnedLeftBehind(st[1].hash)

(***************************************************************************)
(* C13                                                                     *)
(***************************************************************************)
\* the push reported exactly the sentinel, after trimming
ReportsSentinel(c) ==
  IsPush(c) /\ Trim(Trim(c.stdout) \o Trim(c.stderr)) = Sentinel

\* the snapshot run holds for the worktree the call c was made in
StashOfCall(c) == IF c.dir = dest_dir THEN dest_stash ELSE src_stash

\* the directory the snapshot of the worktree of call c is reapplied in
CounterpartDir(c) == IF c.dir = dest_dir THEN src_dir ELSE dest_dir

\* C13: when a stash push reports the sentinel, with any exit status,
\* stash_worktree returns "no snapshot" and no error, no apply and no drop
\* is ever issued for that worktree's snapshot, and the run goes on as
\* usual: it returns Ok when every other call succeeds.
C13_SentinelMeansNoSnapshot ==
  \A i \in LogIdx :
    ReportsSentinel(log[i]) =>
      /\ StashOfCall(log[i]) = <<>>
      /\ ~(Done /\ ReturnedErr /\ Len(log) = i)
      /\ \A j \in LogIdx :
           (IsApply(log[j]) \/ IsDrop(log[j])) =>
             /\ log[j].dir # CounterpartDir(log[i])
             /\ IsApply(log[j]) => log[j].args[3] # NewHash(WorktreeAt(log[i].dir))
      /\ (Done /\ \A j \in LogIdx \ {i} : log[j].status = "ok") =>
           /\ ReturnedOk
           /\ head[DestWt] = start.head[SrcWt]
           /\ head[SrcWt] = start.head[DestWt]

\* the destination's push reported the sentinel with a failing exit status,
\* the run returned Ok and reapplied the source's snapshot
C13_Witness ==
  /\ Done /\ ReturnedOk
  /\ \E i \in LogIdx :
       /\ ReportsSentinel(log[i]) /\ log[i].status = "fail"
       /\ log[i].dir = dest_dir
  /\ \E j \in LogIdx : IsApply(log[j]) /\ log[j].status = "ok"

(***************************************************************************)
(* C14                                                                     *)
(***************************************************************************)
\* the i-th call starts a stash_worktree call that returned without error
CaptureOkAt(i) ==
  /\ IsPush(log[i])
  /\ \/ ReportsSentinel(log[i])
     \/ /\ log[i].status = "ok"
        /\ i + 2 <= Len(log)
        /\ IsRevParseStash(log[i + 1]) /\ log[i + 1].status = "ok"
        /\ IsStashList(log[i + 2]) /\ log[i + 2].status \in {"ok", "silent"}

\* both stash_worktree calls returned without error, the destination's first
BothCapturesOk ==
  \E i, j \in LogIdx :
    /\ i < j
    /\ CaptureOkAt(i) /\ log[i].dir = dest_dir
    /\ CaptureOkAt(j) /\ log[j].dir = src_dir

\* C14: no `switch --detach` and no `switch <branch>` is issued unless both
\* stash_worktree calls, the destination's then the source's, returned
\* without error; after a capture failure both worktrees are on their
\* original branches.
C14_NoDetachBeforeCaptures ==
  /\ (\E i \in LogIdx : IsDetach(log[i]) \/ IsSwitch(log[i])) => BothCapturesOk
  /\ CaptureFailed =>
       /\ head = start.head
       /\ \A i \in LogIdx : ~IsDetach(log[i]) /\ ~IsSwitch(log[i])

\* the source's capture failed after the destination's snapshot was taken
C14_Witness ==
  /\ CaptureFailed
  /\ LastCall.dir = src_dir
  /\ dest_stash # <<>>

(***************************************************************************)
(* C19                                                                     *)
(***************************************************************************)
\* no branch is checked out in two worktrees
NoSharedBranch ==
  \A w, v \in Worktrees :
    (w # v /\ head[w] # DETACHED) => head[w] # head[v]

\* a step that issues `switch <branch>` issues it while no other worktree's
\* head is on that branch
SwitchIssuedOnFreeBranch ==
  (Len(log') = Len(log) + 1 /\ IsSwitch(log'[Len(log')])) =>
    \A v \in Worktrees \ {WorktreeAt(log'[Len(log')].dir)} :
      head[v] # log'[Len(log')].args[2]

\* C19: in every reachable state no branch is checked out in both
\* worktrees, and run never issues `switch <branch>` in one worktree while
\* the other worktree's head is on that branch (the two switches of step 5
\* and the restore after a failed detach of the source).
C19_NoBranchInTwoWorktrees ==
  []NoSharedBranch /\ [][SwitchIssuedOnFreeBranch]_vars

\* the restore switch was issued and succeeded while the source kept its
\* branch
C19_Witness ==
  /\ Done /\ Len(log) >= 2
  /\ SrcDetachFailedAt(Len(log) - 1)
  /\ IsSwitch(LastCall) /\ LastCall.status = "ok"
  /\ head[DestWt] = dest_branch /\ head[SrcWt] = source_branch_name

(***************************************************************************)
(* C20                                                                     *)
(***************************************************************************)
\* C20: when a `stash drop <reference>` is about to be issued, the entry at
\* that position of the (shared) stash list is the entry whose hash is the
\* hash of the snapshot that was just applied.
C20_DropReferenceIsApplied ==
  pc = "drop" =>
    LET stash == ApplyStash(side)[1]
        n == RefIndex(stash.reference[1])
    IN /\ n >= 0 /\ n < Len(store)
       /\ store[n + 1].hash = stash.hash

(***************************************************************************)
(* C15                                                                     *)
(***************************************************************************)
\* the listing read as records: a record is a maximal run a..b of lines
\* that are not blank
IsBlankLine(i) == Trim(porcelain[i]) = <<>>

Records ==
  {r \in (1..Len(porcelain)) \X (1..Len(porcelain)) :
     /\ r[1] <= r[2]
     /\ \A i \in r[1]..r[2] : ~IsBlankLine(i)
     /\ r[1] = 1 \/ IsBlankLine(r[1] - 1)
     /\ r[2] = Len(porcelain) \/ IsBlankLine(r[2] + 1)}

PathLinesOf(r)   == {i \in r[1]..r[2] : Head(porcelain[i]) = "worktree "}
BranchLinesOf(r) == {i \in r[1]..r[2] : Head(porcelain[i]) = "branch "}

LastOf(S) == CHOOSE i \in S : \A j \in S : j <= i

\* the path of a record and its branch with `refs/heads/` stripped
PathOf(r) == Trim(Tail(porcelain[LastOf(PathLinesOf(r))]))
BranchOf(r) ==
  LET b == Trim(Tail(porcelain[LastOf(BranchLinesOf(r))])) IN
    IF b # <<>> /\ Head(b) = "refs/heads/" THEN Tail(b) ELSE b

\* the records that have a path and the branch asked for
MatchingRecords ==
  {r \in Records :
     PathLinesOf(r) # {} /\ BranchLinesOf(r) # {} /\ BranchOf(r) = target}

FirstMatching ==
  CHOOSE r \in MatchingRecords : \A q \in MatchingRecords : r[1] <= q[1]

PathOnDisk(r) ==
  IF IsAbsolute(PathOf(r)) THEN PathOf(r) ELSE Join(dest_dir, PathOf(r))

\* C15: find_worktree_for_branch returns the path of the first record, in
\* input order, that has a path and a normalized branch equal to the
\* target; when that path does not exist the result is the "does not
\* exist" error, also when a later record matches with an existing path;
\* a record without a branch line never matches; when no record matches the
\* result is the "Could not find worktree" error.
C15_FirstMatchingRecord ==
  found # <<>> =>
    IF MatchingRecords = {}
    THEN ~found[1].ok /\ found[1].err = ErrNotFound
    ELSE IF PathOnDisk(FirstMatching) \in disk
    THEN found[1].ok /\ found[1].path = PathOnDisk(FirstMatching)
    ELSE ~found[1].ok /\ found[1].err = ErrNoDir /\ ErrNoDir # ErrNotFound

\* the first matching record names a missing directory, a later one an
\* existing directory
C15_Witness ==
  /\ found # <<>> /\ found[1].err = ErrNoDir
  /\ \E r \in MatchingRecords : PathOnDisk(r) \in disk

(***************************************************************************)
(* C16                                                                     *)
(***************************************************************************)
\* C16: find_worktree_for_branch returns on a listing what it returns on
\* the same listing followed by one blank line.
C16_TrailingRecord ==
  found # <<>> =>
    found[1] = find_worktree_for_branch(disk, dest_dir, target,
                                        Append(porcelain, <<>>))

\* the worktree is found in the last record, which no blank line ends
C16_Witness ==
  /\ found # <<>> /\ found[1].ok
  /\ \A r \in MatchingRecords : r[2] = Len(porcelain)

(***************************************************************************)
(* C17                                                                     *)
(***************************************************************************)
\* C17: the sequence parse_worktree_branches returns is strictly increasing
\* in lexicographic order: sorted, and each name once.
C17_SortedNoDuplicates ==
  listed # <<>> =>
    \A i \in 1..(Len(listed[1]) - 1) : LexLess(listed[1][i], listed[1][i + 1])

\* a name given twice, with and without `refs/heads/`, after another name
C17_Witness ==
  /\ listed # <<>> /\ listed[1] = <<Feat, Main>>
  /\ Len(porcelain) >= 3
  /\ porcelain[1] = <<"branch ", "refs/heads/", "main">>
  /\ porcelain[2] = <<"branch ", "refs/heads/", "feat">>
  /\ porcelain[3] = <<"branch ", " ", "main", " ">>

(***************************************************************************)
(* C18                                                                     *)
(***************************************************************************)
\* the normalized name on a `branch ` line
NormalizedName(i) ==
  LET b == Trim(Tail(porcelain[i])) IN
    IF b # <<>> /\ Head(b) = "refs/heads/" THEN Tail(b) ELSE b

NonEmptyNames ==
  {NormalizedName(i) :
     i \in {j \in 1..Len(porcelain) :
              /\ porcelain[j] # <<>> /\ Head(porcelain[j]) = "branch "
              /\ NormalizedName(j) # <<>>}}

\* C18: the names parse_worktree_branches returns are exactly the non-empty
\* normalized names of the `branch ` lines; the empty string is never one of
\* them.
C18_ExactlyNonEmptyNames ==
  listed # <<>> =>
    /\ {listed[1][i] : i \in 1..Len(listed[1])} = NonEmptyNames
    /\ \A i \in 1..Len(listed[1]) : listed[1][i] # <<>>

(***************************************************************************)
(* C21                                                                     *)
(***************************************************************************)
\* the place of a mutating call in the order of run: 1 push in destination,
\* 2 push in source, 3 detach destination, 4 detach source, 5 switch
\* destination to the source's branch, 6 switch source to the destination's
\* branch, 7 apply in destination, 8 drop in destination, 9 apply in source,
\* 10 drop in source; 0 for any other call
Place(c) ==
  LET inDest == c.dir = dest_dir
      inSrc  == c.dir = src_dir
  IN
  IF IsPush(c) THEN (IF inDest THEN 1 ELSE IF inSrc THEN 2 ELSE 0)
  ELSE IF IsDetach(c) THEN (IF inDest THEN 3 ELSE IF inSrc THEN 4 ELSE 0)
  ELSE IF IsSwitch(c)
  THEN (IF inDest /\ c.args = SwitchArgs(source_branch_name) THEN 5
        ELSE IF inSrc /\ c.args = SwitchArgs(dest_branch) THEN 6 ELSE 0)
  ELSE IF IsApply(c) THEN (IF inDest THEN 7 ELSE IF inSrc THEN 9 ELSE 0)
  ELSE IF IsDrop(c) THEN (IF inDest THEN 8 ELSE IF inSrc THEN 10 ELSE 0)
  ELSE 0

\* the step the call c belongs to failed: for a push, the process did not
\* start or it ended with a failure status without reporting the sentinel
StepFailed(c) ==
  IF IsPush(c)
  THEN c.status = "spawn" \/ (c.status # "ok" /\ ~ReportsSentinel(c))
  ELSE c.status # "ok"

\* call i is the restore switch: the destination is switched to its own
\* branch directly after the failed detach of the source
IsRestoreAt(i) ==
  /\ i > 1
  /\ log[i].dir = dest_dir /\ log[i].args = SwitchArgs(dest_branch)
  /\ Place(log[i - 1]) = 4 /\ StepFailed(log[i - 1])

\* the step that must have been made, without failing, before a call at
\* place k is issued (an apply is skipped when there is no snapshot, so the
\* second apply follows the second switch)
PlaceBefore(k) == IF k = 9 THEN 6 ELSE k - 1

\* the snapshot records run holds
Snapshot(st) == IF st = <<>> THEN {} ELSE {st[1]}
SnapshotRecords == Snapshot(dest_stash) \cup Snapshot(src_stash)

\* the calls before j are in order up to j and j is issued in its turn
InTurn(j) ==
  LET k == Place(log[j]) IN
    /\ \A i \in 1..(j - 1) :
         IsMutating(log[i]) => Place(log[i]) > 0 /\ Place(log[i]) < k
    /\ k \in (2..7) \cup {9} =>
         \E i \in 1..(j - 1) :
           Place(log[i]) = PlaceBefore(k) /\ ~StepFailed(log[i])
    /\ k \in {8, 10} =>
         /\ j > 1 /\ Place(log[j - 1]) = k - 1 /\ log[j - 1].status = "ok"
         /\ \E rec \in SnapshotRecords :
              /\ rec.hash = log[j - 1].args[3]
              /\ rec.reference # <<>>
              /\ log[j].args[3] = rec.reference[1]

\* C21: the mutating git commands are issued in the order push in
\* destination, push in source, detach destination, detach source, switch
\* destination to the source's branch, switch source to the destination's
\* branch, apply then drop in destination, apply then drop in source, each
\* at most once and, up to the second switch, only after the step before it
\* was made without failing; the only other mutating command is the restore
\* switch directly after a failed detach of the source, and nothing follows
\* it; a stash drop is issued only directly after the stash apply of the
\* same snapshot record returned success, and names that record's
\* reference, which is known.
C21_FixedOrder ==
  \A j \in LogIdx :
    IsMutating(log[j]) =>
      \/ Place(log[j]) > 0 /\ InTurn(j)
      \/ Place(log[j]) = 0 /\ IsRestoreAt(j) /\ j = Len(log)

\* a run that issued all ten commands of the order
C21_Witness ==
  /\ Done /\ ReturnedOk
  /\ \A k \in 1..10 : \E i \in LogIdx : Place(log[i]) = k

====
